---- MODULE Spec2Model ----
(***************************************************************************)
(* Model of the ESLint rule `no-invalid-entry-imports` of                  *)
(* eslint-plugin-entered-modules (rules/no-invalid-entry-imports).         *)
(*                                                                         *)
(* An import path is a JavaScript string; it is modelled as a sequence of  *)
(* one-character strings so that startsWith, split, match, replace, test   *)
(* and path.basename are computed character by character, as the code      *)
(* computes them.  path.basename is Node's POSIX implementation.           *)
(*                                                                         *)
(* The host (ESLint) visits one ImportDeclaration node at a time: the      *)
(* source text of the node is composed from a vocabulary of pieces, the    *)
(* handler runs once on it, and the host moves on to the next node.        *)
(***************************************************************************)
EXTENDS Naturals, Sequences, FiniteSets

VARIABLES importPath, pieces, pc, reports

vars == <<importPath, pieces, pc, reports>>

(***************************************************************************)
(* Bound of the model: how many pieces of the vocabulary one import path   *)
(* is composed of.                                                         *)
(***************************************************************************)
MaxPieces == 3

(***************************************************************************)
(* Characters.                                                             *)
(***************************************************************************)
Digits == {"0", "1", "2", "3", "4", "5", "6", "7", "8", "9"}

UpperCase == {"A", "B", "C", "D", "E", "F", "G", "H", "I", "J", "K", "L", "M",
              "N", "O", "P", "Q", "R", "S", "T", "U", "V", "W", "X", "Y", "Z"}

LowerCase == {"a", "b", "c", "d", "e", "f", "g", "h", "i", "j", "k", "l", "m",
              "n", "o", "p", "q", "r", "s", "t", "u", "v", "w", "x", "y", "z"}

\* The character class [0-9A-Za-z-] of both entry patterns.
SegmentChars == Digits \cup UpperCase \cup LowerCase \cup {"-"}

\* The characters a JavaScript `.` (no s flag) does not match.
LineTerminators == {"\n", "\r"}

(***************************************************************************)
(* The six messageIds of meta.messages.                                    *)
(***************************************************************************)
MessageIds == {"invalidParentImport", "invalidSubdirectoryImport",
               "tooManyDirectorySegments", "invalidTopLevelImport",
               "invalidTopLevelImportDepth", "invalidTopLevelImportChildren"}

(***************************************************************************)
(* String primitives.                                                      *)
(***************************************************************************)
\* s.slice(from) with 0 <= from: the characters after the first `from`.
Slice(s, from) == SubSeq(s, from + 1, Len(s))

\* s.startsWith(prefix)
StartsWith(s, prefix) ==
    /\ Len(prefix) <= Len(s)
    /\ SubSeq(s, 1, Len(prefix)) = prefix

\* s.includes(c) for a one-character c
Includes(s, c) == \E i \in 1..Len(s) : s[i] = c

\* The index of the first c at or after position i, Len(s) + 1 when none.
RECURSIVE IndexFrom(_, _, _)
IndexFrom(s, c, i) ==
    IF i > Len(s) THEN Len(s) + 1
    ELSE IF s[i] = c THEN i
    ELSE IndexFrom(s, c, i + 1)

\* s.split(c) for a one-character separator c: never an empty list.
RECURSIVE Split(_, _)
Split(s, c) ==
    LET k == IndexFrom(s, c, 1)
    IN  IF k > Len(s) THEN <<s>>
        ELSE <<SubSeq(s, 1, k - 1)>> \o Split(SubSeq(s, k + 1, Len(s)), c)

\* The index of the first character at or after position i that is not in the
\* set cs, Len(s) + 1 when none: the end of a greedy run of [cs]*.
RECURSIVE RunEnd(_, _, _)
RunEnd(s, cs, i) ==
    IF i > Len(s) THEN Len(s) + 1
    ELSE IF s[i] \notin cs THEN i
    ELSE RunEnd(s, cs, i + 1)

(***************************************************************************)
(* String literals of the rule.                                            *)
(***************************************************************************)
AtSlash == <<"@", "/">>

Dot == <<".">>

DotDot == <<".", ".">>

DotSlash == <<".", "/">>

EntryWord == <<"e", "n", "t", "r", "y">>

EntryDotDot == <<"e", "n", "t", "r", "y", ".", ".">>

ChildrenWord == <<"c", "h", "i", "l", "d", "r", "e", "n">>

\* The alternatives with jsx left out.
ExtensionNamesNoJsx == {<<"t", "s">>, <<"t", "s", "x">>, <<"j", "s">>}

\* The alternatives of /\.(ts|tsx|js|jsx)$/ after the dot.
ExtensionNames == {<<"t", "s">>, <<"t", "s", "x">>, <<"j", "s">>, <<"j", "s", "x">>}

(***************************************************************************)
(* importPath.match(/^@\/([^/]+)\/(.+)$/): [^/]+ cannot cross a slash, so  *)
(* the module name ends at the first slash after "@/"; .+ is at least one  *)
(* character and matches no line terminator.                               *)
(***************************************************************************)
TopLevelMatch(s) ==
    LET k == IndexFrom(s, "/", 3)
    IN  /\ StartsWith(s, AtSlash)
        /\ k > 3
        /\ k < Len(s)
        /\ \A i \in (k + 1)..Len(s) : s[i] \notin LineTerminators

\* match[1] of a successful match.
MatchModuleName(s) == SubSeq(s, 3, IndexFrom(s, "/", 3) - 1)

\* match[2] of a successful match.
MatchFilePath(s) == SubSeq(s, IndexFrom(s, "/", 3) + 1, Len(s))

(***************************************************************************)
(* s.replace(/\.(ts|tsx|js|jsx)$/, ''): the leftmost position where a dot  *)
(* is followed by one of the extension names and then the end of input.    *)
(***************************************************************************)
RECURSIVE ExtensionIndex(_, _)
ExtensionIndex(s, i) ==
    IF i > Len(s) THEN 0
    ELSE IF s[i] = "." /\ SubSeq(s, i + 1, Len(s)) \in ExtensionNames THEN i
    ELSE ExtensionIndex(s, i + 1)

ReplaceExtension(s) ==
    LET i == ExtensionIndex(s, 1)
    IN  IF i = 0 THEN s ELSE SubSeq(s, 1, i - 1)

\* The groups of /^entry(\.[0-9A-Za-z-]*)*$/: segments may be empty.
RECURSIVE NormalGroupsEmptySegments(_, _)
NormalGroupsEmptySegments(s, i) ==
    IF i > Len(s) THEN TRUE
    ELSE /\ s[i] = "."
         /\ NormalGroupsEmptySegments(s, RunEnd(s, SegmentChars, i + 1))

\* /^entry(\.[0-9A-Za-z-]+)*$/.test(fileName): after "entry", any number of
\* groups (a dot, then a run of one or more segment characters), then the end
\* of input.
RECURSIVE NormalGroups(_, _)
NormalGroups(s, i) ==
    IF i > Len(s) THEN TRUE
    ELSE /\ s[i] = "."
         /\ RunEnd(s, SegmentChars, i + 1) > i + 1
         /\ NormalGroups(s, RunEnd(s, SegmentChars, i + 1))

isNormalEntry(fileName) ==
    /\ StartsWith(fileName, EntryWord)
    /\ NormalGroups(fileName, Len(EntryWord) + 1)

\* /^entry\.\.(([0-9A-Za-z-]+\.)*)?children$/.test(fileName): after "entry..",
\* any number of groups (a run of segment characters, then a dot), then
\* "children" and the end of input.
RECURSIVE ChildrenGroups(_, _)
ChildrenGroups(s, i) ==
    \/ SubSeq(s, i, Len(s)) = ChildrenWord
    \/ LET j == RunEnd(s, SegmentChars, i)
       IN  /\ j > i
           /\ j <= Len(s)
           /\ s[j] = "."
           /\ ChildrenGroups(s, j + 1)

isChildrenEntry(fileName) ==
    /\ StartsWith(fileName, EntryDotDot)
    /\ ChildrenGroups(fileName, Len(EntryDotDot) + 1)

(***************************************************************************)
(* path.basename(p) (POSIX, no suffix): trailing slashes are skipped, the  *)
(* result is what lies between the last slash before them and them.        *)
(***************************************************************************)
RECURSIVE BasenameEnd(_, _)
BasenameEnd(p, i) ==
    IF i = 0 THEN 0
    ELSE IF p[i] # "/" THEN i
    ELSE BasenameEnd(p, i - 1)

RECURSIVE BasenameStart(_, _)
BasenameStart(p, i) ==
    IF i = 0 THEN 1
    ELSE IF p[i] = "/" THEN i + 1
    ELSE BasenameStart(p, i - 1)

Basename(p) ==
    LET end == BasenameEnd(p, Len(p))
    IN  IF end = 0 THEN <<>> ELSE SubSeq(p, BasenameStart(p, end), end)

(***************************************************************************)
(* The handler.  Each branch yields the messageIds it hands to             *)
(* context.report, in order; a `return` ends the list.                     *)
(***************************************************************************)
\* TopLevelImport without the final isNormalEntry test.
TopLevelImportNoEntryTest(p) ==
    IF ~TopLevelMatch(p) THEN <<"invalidTopLevelImport">>
    ELSE LET filePath == MatchFilePath(p)
             fileName == ReplaceExtension(filePath)
         IN  IF Includes(filePath, "/") THEN <<"invalidTopLevelImportDepth">>
             ELSE IF isChildrenEntry(fileName)
                  THEN <<"invalidTopLevelImportChildren">>
             ELSE <<>>

\* TopLevelImport testing the normal-entry pattern before the children pattern.
TopLevelImportNormalFirst(p) ==
    IF ~TopLevelMatch(p) THEN <<"invalidTopLevelImport">>
    ELSE LET filePath == MatchFilePath(p)
             fileName == ReplaceExtension(filePath)
         IN  IF Includes(filePath, "/") THEN <<"invalidTopLevelImportDepth">>
             ELSE IF ~isNormalEntry(fileName) THEN <<"invalidTopLevelImport">>
             ELSE IF isChildrenEntry(fileName)
                  THEN <<"invalidTopLevelImportChildren">>
             ELSE <<>>

\* TopLevelImport without the return that follows the children report.
TopLevelImportNoReturn(p) ==
    IF ~TopLevelMatch(p) THEN <<"invalidTopLevelImport">>
    ELSE LET filePath == MatchFilePath(p)
             fileName == ReplaceExtension(filePath)
         IN  IF Includes(filePath, "/") THEN <<"invalidTopLevelImportDepth">>
             ELSE (IF isChildrenEntry(fileName)
                   THEN <<"invalidTopLevelImportChildren">> ELSE <<>>)
                  \o (IF ~isNormalEntry(fileName)
                      THEN <<"invalidTopLevelImport">> ELSE <<>>)

\* Rule 1: imports starting with "@/".
TopLevelImport(p) ==
    IF ~TopLevelMatch(p) THEN <<"invalidTopLevelImport">>
    ELSE LET filePath == MatchFilePath(p)
             fileName == ReplaceExtension(filePath)
         IN  IF Includes(filePath, "/") THEN <<"invalidTopLevelImportDepth">>
             ELSE IF isChildrenEntry(fileName)
                  THEN <<"invalidTopLevelImportChildren">>
             ELSE IF ~isNormalEntry(fileName) THEN <<"invalidTopLevelImport">>
             ELSE <<>>

\* ParentImport testing the file name against the normal-entry pattern.
ParentImportNormalEntry(p) ==
    LET pathSegments == Split(p, "/")
        fileName == ReplaceExtension(Basename(p))
    IN  IF Len(pathSegments) > 2 THEN <<"tooManyDirectorySegments">>
        ELSE IF ~isNormalEntry(fileName) THEN <<"invalidParentImport">>
        ELSE <<>>

\* ParentImport testing the file name before the number of segments.
ParentImportNameFirst(p) ==
    LET pathSegments == Split(p, "/")
        fileName == ReplaceExtension(Basename(p))
    IN  IF ~isChildrenEntry(fileName) THEN <<"invalidParentImport">>
        ELSE IF Len(pathSegments) > 2 THEN <<"tooManyDirectorySegments">>
        ELSE <<>>

\* Rule 2: imports starting with "..".
ParentImport(p) ==
    LET pathSegments == Split(p, "/")
        fileName == ReplaceExtension(Basename(p))
    IN  IF Len(pathSegments) > 2 THEN <<"tooManyDirectorySegments">>
        ELSE IF ~isChildrenEntry(fileName) THEN <<"invalidParentImport">>
        ELSE <<>>

\* SubdirectoryImport without the early return for a single segment.
SubdirectoryImportNoSibling(p) ==
    LET pathWithoutPrefix == Slice(p, 2)
        segments == Split(pathWithoutPrefix, "/")
        fileName == ReplaceExtension(Basename(p))
    IN  IF Len(segments) > 2 THEN <<"tooManyDirectorySegments">>
        ELSE IF ~isNormalEntry(fileName) THEN <<"invalidSubdirectoryImport">>
        ELSE IF isChildrenEntry(fileName) THEN <<"invalidSubdirectoryImport">>
        ELSE <<>>

\* Rule 3 and the sibling exemption: imports starting with "./".
SubdirectoryImport(p) ==
    LET pathWithoutPrefix == Slice(p, 2)
        segments == Split(pathWithoutPrefix, "/")
        fileName == ReplaceExtension(Basename(p))
    IN  IF Len(segments) = 1 THEN <<>>
        ELSE IF Len(segments) > 2 THEN <<"tooManyDirectorySegments">>
        ELSE IF ~isNormalEntry(fileName) THEN <<"invalidSubdirectoryImport">>
        ELSE IF isChildrenEntry(fileName) THEN <<"invalidSubdirectoryImport">>
        ELSE <<>>

\* Handler with the top-level test written startsWith('@').
HandlerAnyAt(p) ==
    IF ~StartsWith(p, Dot) /\ ~StartsWith(p, <<"@">>) THEN <<>>
    ELSE IF StartsWith(p, <<"@">>) THEN TopLevelImport(p)
    ELSE IF StartsWith(p, DotDot) THEN ParentImport(p)
    ELSE IF StartsWith(p, DotSlash) THEN SubdirectoryImport(p)
    ELSE <<>>

\* What one call of the ImportDeclaration handler reports for importPath p.
Handler(p) ==
    IF ~StartsWith(p, Dot) /\ ~StartsWith(p, AtSlash) THEN <<>>
    ELSE IF StartsWith(p, AtSlash) THEN TopLevelImport(p)
    ELSE IF StartsWith(p, DotDot) THEN ParentImport(p)
    ELSE IF StartsWith(p, DotSlash) THEN SubdirectoryImport(p)
    ELSE <<>>

(***************************************************************************)
(* The vocabulary import paths are composed of: prefixes, directories,     *)
(* separators, file names of every class, the recognized extensions and    *)
(* characters outside the segment class.                                   *)
(***************************************************************************)
Vocabulary ==
    { AtSlash, DotSlash, Dot, EntryWord, ChildrenWord,
      <<"@", "/", "u", "i", "/">>,
      <<".", "/", "l", "i", "b", "/">>,
      <<".", ".", "/">>,
      <<"@", "s", "/">>,
      <<"m", "-", "2", "/">>,
      <<"/">>,
      <<"B", "t", "n">>,
      <<"e", "n", "t", "r", "y", ".", "c", "o", "r", "e">>,
      <<"e", "n", "t", "r", "y", ".", ".", "c", "h", "i", "l", "d", "r", "e", "n">>,
      <<"e", "n", "t", "r", "y", ".", ".", "a", "-", "1", ".", "c", "h", "i", "l", "d", "r", "e", "n">>,
      <<"\n">>,
      <<"_">>,
      <<".", "t", "s">>,
      <<".", "t", "s", "x">>,
      <<".", "j", "s">>,
      <<".", "j", "s", "x">> }

(***************************************************************************)
(* The state machine.                                                      *)
(***************************************************************************)
Init ==
    /\ importPath = <<>>
    /\ pieces = 0
    /\ pc = "source"
    /\ reports = <<>>

\* The source text of the import under the cursor grows by one piece.
Compose(w) ==
    /\ pc = "source"
    /\ pieces < MaxPieces
    /\ importPath' = importPath \o w
    /\ pieces' = pieces + 1
    /\ UNCHANGED <<pc, reports>>

\* ESLint calls the rule's ImportDeclaration handler on the node.
ImportDeclaration ==
    /\ pc = "source"
    /\ reports' = Handler(importPath)
    /\ pc' = "visited"
    /\ UNCHANGED <<importPath, pieces>>

\* ESLint moves on to the next import declaration.
NextNode ==
    /\ pc = "visited"
    /\ importPath' = <<>>
    /\ pieces' = 0
    /\ pc' = "source"
    /\ reports' = <<>>

Next ==
    \/ \E w \in Vocabulary : Compose(w)
    \/ ImportDeclaration
    \/ NextNode

Spec == Init /\ [][Next]_vars

(***************************************************************************)
(* Vocabulary of the properties: the path shapes and the two entry-name    *)
(* grammars as the documentation states them, written without the          *)
(* string primitives of the rule.                                          *)
(***************************************************************************)
\* The recognized extensions .ts, .tsx, .js, .jsx.
Extensions == {<<".", "t", "s">>, <<".", "t", "s", "x">>, <<".", "j", "s">>, <<".", "j", "s", "x">>}

\* p begins with the characters of q.
HasPrefix(p, q) ==
    /\ Len(p) >= Len(q)
    /\ \A i \in 1..Len(q) : p[i] = q[i]

\* p ends with the characters of q.
HasSuffix(p, q) ==
    /\ Len(p) >= Len(q)
    /\ \A i \in 1..Len(q) : p[Len(p) - Len(q) + i] = q[i]

\* The positions of the directory separators of p.
SlashPositions(p) == {i \in 1..Len(p) : p[i] = "/"}

\* The position of the last separator of p, 0 when there is none.
LastSlash(p) ==
    IF SlashPositions(p) = {} THEN 0
    ELSE CHOOSE i \in SlashPositions(p) : \A j \in SlashPositions(p) : j <= i

\* The final segment of p: what follows its last separator.
FinalSegment(p) == SubSeq(p, LastSlash(p) + 1, Len(p))

\* f ends in a recognized extension.
EndsInExtension(f) == \E e \in Extensions : HasSuffix(f, e)

\* f with one trailing recognized extension removed.
Stripped(f) ==
    IF EndsInExtension(f)
    THEN LET e == CHOOSE x \in Extensions : HasSuffix(f, x)
         IN  SubSeq(f, 1, Len(f) - Len(e))
    ELSE f

\* r is a concatenation of groups drawn from segment characters and dots in
\* which neither two dots nor the two ends misplace a dot: with dotFirst every
\* group is a dot then a segment, otherwise a segment then a dot.
DottedGroups(r, dotFirst) ==
    \/ r = <<>>
    \/ /\ \A i \in 1..Len(r) : r[i] \in SegmentChars \cup {"."}
       /\ \A i \in 1..(Len(r) - 1) : ~(r[i] = "." /\ r[i + 1] = ".")
       /\ (r[1] = ".") <=> dotFirst
       /\ (r[Len(r)] = ".") <=> ~dotFirst

\* The normal-entry grammar entry(.[0-9A-Za-z-]+)*.
NormalEntryGrammar(f) ==
    /\ HasPrefix(f, EntryWord)
    /\ DottedGroups(SubSeq(f, Len(EntryWord) + 1, Len(f)), TRUE)

\* The children-entry grammar entry..([0-9A-Za-z-]+.)*children.
ChildrenEntryGrammar(f) ==
    /\ HasPrefix(f, EntryDotDot)
    /\ HasSuffix(f, ChildrenWord)
    /\ Len(f) >= Len(EntryDotDot) + Len(ChildrenWord)
    /\ DottedGroups(SubSeq(f, Len(EntryDotDot) + 1, Len(f) - Len(ChildrenWord)),
                    FALSE)

\* p is @/<module>/<rest> with a non-empty, separator-free module and a
\* non-empty rest: k is the position of the separator that ends the module.
ModuleEnd(p) ==
    IF \E k \in 4..(Len(p) - 1) : p[k] = "/" /\ \A i \in 3..(k - 1) : p[i] # "/"
    THEN CHOOSE k \in 4..(Len(p) - 1) :
             p[k] = "/" /\ \A i \in 3..(k - 1) : p[i] # "/"
    ELSE 0

HasModuleAndRest(p) == HasPrefix(p, AtSlash) /\ ModuleEnd(p) # 0

\* p is @/<module>/<file>: module and file non-empty and separator-free.
TopLevelShape(p) == HasModuleAndRest(p) /\ LastSlash(p) = ModuleEnd(p)

\* p is ../<file> with a separator-free file.
ParentShape(p) == HasPrefix(p, <<".", ".", "/">>) /\ LastSlash(p) = 3

\* p is ./<name> with a separator-free name.
SiblingShape(p) == HasPrefix(p, DotSlash) /\ LastSlash(p) = 2

\* p is ./<a>/<b>: exactly two separator-free segments after the leading ./
SubdirectoryShape(p) ==
    HasPrefix(p, DotSlash) /\ Cardinality(SlashPositions(p)) = 2

\* The handler has run on importPath.
Visited == pc = "visited"

(***************************************************************************)
(* C1: for every import path that starts neither with "." nor with "@/"    *)
(* (package names, @scope/pkg), the rule reports no violation.             *)
(***************************************************************************)
C1_ExternalImportsSkipped ==
    (Visited /\ ~HasPrefix(importPath, Dot) /\ ~HasPrefix(importPath, AtSlash))
        => reports = <<>>

C1_Witness ==
    /\ Visited
    /\ HasPrefix(importPath, <<"@">>)
    /\ ~HasPrefix(importPath, AtSlash)
    /\ SlashPositions(importPath) # {}
    /\ FinalSegment(importPath) # <<>>
    /\ reports = <<>>

(***************************************************************************)
(* C2: for every path starting with "@/", the rule reports nothing exactly *)
(* when the path is @/<module>/<file> (module and file non-empty and free  *)
(* of "/") and the file, one trailing recognized extension removed,        *)
(* matches the normal-entry grammar; it reports invalidTopLevelImport when *)
(* the path has no non-empty module followed by a non-empty rest (@/m,     *)
(* @/m/) and when the single-segment file matches neither grammar.         *)
(***************************************************************************)
C2_TopLevelEntryOnly ==
    (Visited /\ HasPrefix(importPath, AtSlash)) =>
        LET file == Stripped(FinalSegment(importPath))
        IN  /\ reports = <<>> <=>
                (TopLevelShape(importPath) /\ NormalEntryGrammar(file))
            /\ ~HasModuleAndRest(importPath) =>
                reports = <<"invalidTopLevelImport">>
            /\ ( /\ TopLevelShape(importPath)
                 /\ ~NormalEntryGrammar(file)
                 /\ ~ChildrenEntryGrammar(file) ) =>
                reports = <<"invalidTopLevelImport">>

C2_Witness ==
    /\ Visited
    /\ TopLevelShape(importPath)
    /\ EndsInExtension(FinalSegment(importPath))
    /\ NormalEntryGrammar(Stripped(FinalSegment(importPath)))
    /\ Stripped(FinalSegment(importPath)) # EntryWord
    /\ reports = <<>>

(***************************************************************************)
(* C3: for every path ../<file> with a separator-free file, the rule       *)
(* reports nothing exactly when the file, one trailing recognized          *)
(* extension removed, matches the children-entry grammar, and              *)
(* invalidParentImport in every other case.                                *)
(***************************************************************************)
C3_ParentChildrenOnly ==
    (Visited /\ ParentShape(importPath)) =>
        IF ChildrenEntryGrammar(Stripped(FinalSegment(importPath)))
        THEN reports = <<>>
        ELSE reports = <<"invalidParentImport">>

C3_Witness ==
    /\ Visited
    /\ ParentShape(importPath)
    /\ EndsInExtension(FinalSegment(importPath))
    /\ ChildrenEntryGrammar(Stripped(FinalSegment(importPath)))
    /\ Stripped(FinalSegment(importPath)) # EntryDotDot \o ChildrenWord
    /\ reports = <<>>

(***************************************************************************)
(* C4: for every path ./<a>/<b> with exactly two segments after the        *)
(* leading "./" (each possibly empty), the rule reports nothing if b, one  *)
(* trailing recognized extension removed, matches the normal-entry grammar *)
(* and invalidSubdirectoryImport otherwise.                                *)
(***************************************************************************)
C4_SubdirectoryNormalOnly ==
    (Visited /\ SubdirectoryShape(importPath)) =>
        IF NormalEntryGrammar(Stripped(FinalSegment(importPath)))
        THEN reports = <<>>
        ELSE reports = <<"invalidSubdirectoryImport">>

(***************************************************************************)
(* C5: for every path ./<name> with a separator-free name (a sibling), the *)
(* rule reports nothing, whatever the name and its extension.              *)
(***************************************************************************)
C5_SiblingAlwaysAllowed ==
    (Visited /\ SiblingShape(importPath)) => reports = <<>>

C5_Witness ==
    /\ Visited
    /\ SiblingShape(importPath)
    /\ ChildrenEntryGrammar(Stripped(FinalSegment(importPath)))
    /\ reports = <<>>

(***************************************************************************)
(* C6: every path starting with "../" that splits on "/" into more than    *)
(* two segments, and every path starting with "./" whose remainder splits  *)
(* into more than two segments, is reported as tooManyDirectorySegments,   *)
(* whatever its final file name: the depth test precedes the name test.    *)
(***************************************************************************)
C6_DepthBeforeName ==
    ( /\ Visited
      /\ \/ /\ HasPrefix(importPath, <<".", ".", "/">>)
            /\ Cardinality(SlashPositions(importPath)) >= 2
         \/ /\ HasPrefix(importPath, DotSlash)
            /\ Cardinality(SlashPositions(importPath)) >= 3 )
        => reports = <<"tooManyDirectorySegments">>

C6_Witness ==
    /\ Visited
    /\ HasPrefix(importPath, <<".", ".", "/">>)
    /\ Cardinality(SlashPositions(importPath)) >= 2
    /\ ChildrenEntryGrammar(Stripped(FinalSegment(importPath)))
    /\ reports = <<"tooManyDirectorySegments">>

(***************************************************************************)
(* C7: every path @/<module>/<rest> with a non-empty separator-free module *)
(* whose rest contains a "/" is reported as invalidTopLevelImportDepth,    *)
(* whatever its final file name.                                           *)
(***************************************************************************)
C7_TopLevelDepth ==
    ( /\ Visited
      /\ HasModuleAndRest(importPath)
      /\ LastSlash(importPath) > ModuleEnd(importPath) )
        => reports = <<"invalidTopLevelImportDepth">>

(***************************************************************************)
(* C8: every path @/<module>/<file> (module and file non-empty and free of *)
(* "/") whose file, one trailing recognized extension removed, matches the *)
(* children-entry grammar is reported as invalidTopLevelImportChildren.    *)
(***************************************************************************)
C8_TopLevelChildrenForbidden ==
    ( /\ Visited
      /\ TopLevelShape(importPath)
      /\ ChildrenEntryGrammar(Stripped(FinalSegment(importPath))) )
        => reports = <<"invalidTopLevelImportChildren">>

C8_Witness ==
    /\ Visited
    /\ TopLevelShape(importPath)
    /\ EndsInExtension(FinalSegment(importPath))
    /\ ChildrenEntryGrammar(Stripped(FinalSegment(importPath)))
    /\ Stripped(FinalSegment(importPath)) # EntryDotDot \o ChildrenWord
    /\ reports = <<"invalidTopLevelImportChildren">>

(***************************************************************************)
(* C9: one call of the handler on one import path calls context.report at  *)
(* most once, and with one of the six declared messageIds.                 *)
(***************************************************************************)
C9_AtMostOneReport ==
    Visited =>
        /\ Len(reports) <= 1
        /\ \A i \in 1..Len(reports) : reports[i] \in MessageIds

C9_Witness ==
    /\ Visited
    /\ TopLevelShape(importPath)
    /\ ChildrenEntryGrammar(Stripped(FinalSegment(importPath)))
    /\ ~NormalEntryGrammar(Stripped(FinalSegment(importPath)))
    /\ Len(reports) = 1

(***************************************************************************)
(* C10: extension-insensitivity.  For every path p and recognized          *)
(* extensions e1, e2 the handler reports the same on p + e1 and p + e2;    *)
(* and for every path in the top-level, parent-traversal or subdirectory   *)
(* shape whose non-empty file name does not end in a recognized extension, *)
(* the handler reports on the path with any recognized extension appended  *)
(* what it reports on the path itself.                                     *)
(***************************************************************************)
C10_ExtensionInsensitive ==
    Visited =>
        LET suffixed == {Handler(importPath \o e) : e \in Extensions}
        IN  /\ Cardinality(suffixed) = 1
            /\ ( /\ \/ TopLevelShape(importPath)
                    \/ ParentShape(importPath)
                    \/ SubdirectoryShape(importPath)
                 /\ FinalSegment(importPath) # <<>>
                 /\ ~EndsInExtension(FinalSegment(importPath)) )
                   => suffixed = {reports}

C10_Witness ==
    /\ Visited
    /\ ParentShape(importPath)
    /\ ~EndsInExtension(FinalSegment(importPath))
    /\ ChildrenEntryGrammar(FinalSegment(importPath))
    /\ reports = <<>>
    /\ Handler(importPath \o <<".", "j", "s", "x">>) = <<>>

(***************************************************************************)
(* The decisions of Step 3a and Step 3b as the design states them, on the  *)
(* separators and the final segment of the path.                           *)
(***************************************************************************)
\* Step 3a: more than two segments, else the children-entry test.
ParentRules(p) ==
    IF Cardinality(SlashPositions(p)) + 1 > 2
    THEN <<"tooManyDirectorySegments">>
    ELSE IF ChildrenEntryGrammar(Stripped(FinalSegment(p))) THEN <<>>
    ELSE <<"invalidParentImport">>

\* The number of segments that remain once a leading "./" is removed.
RemainingSegments(p) ==
    IF HasPrefix(p, DotSlash) THEN Cardinality(SlashPositions(p))
    ELSE Cardinality(SlashPositions(p)) + 1

\* Step 3b: one segment is a sibling, more than two is too deep, two call
\* for the normal-entry test.
SubdirectoryOrSiblingRules(p) ==
    IF RemainingSegments(p) = 1 THEN <<>>
    ELSE IF RemainingSegments(p) > 2 THEN <<"tooManyDirectorySegments">>
    ELSE IF NormalEntryGrammar(Stripped(FinalSegment(p))) THEN <<>>
    ELSE <<"invalidSubdirectoryImport">>

\* Step 1: two leading dots followed by a separator or the end of the path.
ParentTraversal(p) == p = DotDot \/ HasPrefix(p, <<".", ".", "/">>)

(***************************************************************************)
(* C11: prefix routing of paths starting with "." is total: such a path is *)
(* decided by the parent-traversal rules exactly when it is ".." or starts *)
(* with "../", and by the subdirectory-or-sibling rules otherwise, so that *)
(* no path starting with "." escapes both branches.                        *)
(***************************************************************************)
C11_DotPrefixRouting ==
    (Visited /\ HasPrefix(importPath, Dot)) =>
        reports = IF ParentTraversal(importPath)
                  THEN ParentRules(importPath)
                  ELSE SubdirectoryOrSiblingRules(importPath)

(***************************************************************************)
(* C12: the normal-entry pattern and the children-entry pattern are        *)
(* disjoint: no file name matches both, whichever is tested first, so the  *)
(* second test of the subdirectory branch (the children-entry test after   *)
(* the normal-entry test has passed) never produces a report.  The file    *)
(* names are every tail of the visited path, with and without its          *)
(* extension.                                                              *)
(***************************************************************************)
C12_EntryPatternsDisjoint ==
    Visited =>
        /\ \A path \in {importPath, ReplaceExtension(importPath)} :
               \A i \in 0..Len(path) :
                   ~(isNormalEntry(Slice(path, i)) /\ isChildrenEntry(Slice(path, i)))
        /\ ( /\ StartsWith(importPath, DotSlash)
             /\ Len(Split(Slice(importPath, 2), "/")) = 2
             /\ isNormalEntry(ReplaceExtension(Basename(importPath))) )
               => reports = <<>>

C12_Witness ==
    /\ Visited
    /\ StartsWith(importPath, DotSlash)
    /\ Len(Split(Slice(importPath, 2), "/")) = 2
    /\ isNormalEntry(ReplaceExtension(Basename(importPath)))
    /\ Len(ReplaceExtension(Basename(importPath))) > Len(EntryWord)
    /\ ~isChildrenEntry(ReplaceExtension(Basename(importPath)))
    /\ reports = <<>>

====
